---- MODULE Spec2Model ----
(***************************************************************************)
(* Model of the Intelligent Accountant: the spreadsheet normalizer         *)
(* (utils.load_excel_file), the fence stripper (utils.sanitize_code), the  *)
(* executor (FinancialAnalyst.execute_code) and the Streamlit script of    *)
(* app.py (upload loop, auto-load loop, chat turn handler).                *)
(*                                                                         *)
(* Python text is modelled as a sequence of one-character strings, so that *)
(* str.strip, str.startswith, str.endswith and slicing are computed on the *)
(* characters.  A Python dict is a function whose DOMAIN is its key set.   *)
(***************************************************************************)
EXTENDS Integers, Sequences, FiniteSets, TLC

VARIABLES
    \* ---- st.session_state and the process (app.py)
    messages,        \* st.session_state.messages: list of {role, content}
    dataframes,      \* st.session_state.dataframes: filename -> {sheet -> df}
    sys_stdout,      \* the object bound to sys.stdout: 0 is the console,
                     \* k > 0 is the io.StringIO made by the k-th execute_code
    data_dir,        \* the .xlsx files of the Data folder
    \* ---- the chat turn in progress (locals of the script run)
    pc,              \* position of the script: "idle" between runs
    prompt,          \* the submitted question
    analysis,        \* what analyze_query returned
    code,            \* what generate_code returned (the synthesized program)
    result,          \* first component of execute_code's return value
    output,          \* second component of execute_code's return value
    \* ---- what the script showed, and the record of the run (history)
    upload_errors,   \* file names shown by st.error at app.py:64 in the last pass
    auto_errors,     \* file names shown by st.error at app.py:75 in the last pass
    last_batch,      \* the files of the last upload pass
    last_op,         \* the last operation that ran
    calls,           \* completion-service calls made in the current turn
    executed,        \* execute_code was entered and left (normally) this turn
    execs,           \* number of execute_code calls so far
    turns,           \* number of questions submitted so far
    stdout_before,   \* sys.stdout when execute_code was last entered
    dataframes_before, \* the collection when execute_code was last entered
    exec_fault,      \* the fault raised by the last executed program, or "none"
    escaped,         \* a raw fault left the script run of the current turn
    explained,       \* the value handed to explain_result in the current turn
    \* ---- load_excel_file on one sheet
    sheet_in,        \* the sheet as stored in the workbook (rows of cells)
    df,              \* the normalized sheet
    npc,             \* "start" | "done"
    \* ---- sanitize_code on one completion
    raw,             \* the completion text, by its parts
    code_str,        \* the sanitized text
    spc              \* "start" | "done"

vars == << messages, dataframes, sys_stdout, data_dir, pc, prompt, analysis,
           code, result, output, upload_errors, auto_errors, last_batch,
           last_op, calls, executed, execs, turns, stdout_before,
           dataframes_before, exec_fault, escaped, explained,
           sheet_in, df, npc, raw, code_str, spc >>

appVars == << messages, dataframes, sys_stdout, data_dir, pc, prompt, analysis,
              code, result, output, upload_errors, auto_errors, last_batch,
              last_op, calls, executed, execs, turns, stdout_before,
              dataframes_before, exec_fault, escaped, explained >>

normVars == << sheet_in, df, npc >>

sanVars == << raw, code_str, spc >>

----------------------------------------------------------------------------
(* Bounds of the model *)

MaxTurns == 2        \* questions submitted in one behaviour
MaxRows == 22        \* rows of a generated sheet (the preview window is 20)

----------------------------------------------------------------------------
(* Python str operations, on sequences of characters *)

IsSpace(ch) == ch \in {" ", "\n", "\t"}

RECURSIVE LStrip(_)
LStrip(s) == IF s = <<>> \/ ~IsSpace(Head(s)) THEN s ELSE LStrip(Tail(s))

RECURSIVE RStrip(_)
RStrip(s) ==
    IF s = <<>> \/ ~IsSpace(s[Len(s)]) THEN s
    ELSE RStrip(SubSeq(s, 1, Len(s) - 1))

\* str.strip()
Strip(s) == RStrip(LStrip(s))

\* str.startswith(p)
StartsWith(s, p) == Len(s) >= Len(p) /\ SubSeq(s, 1, Len(p)) = p

\* str.endswith(p)
EndsWith(s, p) ==
    Len(s) >= Len(p) /\ SubSeq(s, Len(s) - Len(p) + 1, Len(s)) = p

\* s[n:]
SliceFrom(s, n) == SubSeq(s, n + 1, Len(s))

\* s[:-n]
SliceDropLast(s, n) == SubSeq(s, 1, Len(s) - n)

Digit(d) == << "0", "1", "2", "3", "4", "5", "6", "7", "8", "9" >>[d + 1]

\* str(i) for a non-negative int, as the f-string of utils.py:29 formats it
RECURSIVE IntToStr(_)
IntToStr(i) ==
    IF i < 10 THEN << Digit(i) >>
    ELSE IntToStr(i \div 10) \o << Digit(i % 10) >>

\* The character U+0060 (the fence character), by name.
BQ == "BACKQUOTE"

Fence == << BQ, BQ, BQ >>
FencePython == Fence \o << "p", "y", "t", "h", "o", "n" >>
UnnamedPrefix == << "U", "n", "n", "a", "m", "e", "d" >>
ColumnPrefix == << "C", "o", "l", "u", "m", "n", "_" >>

----------------------------------------------------------------------------
(* utils.sanitize_code *)

SanitizeOpening(s) ==
    IF StartsWith(s, FencePython) THEN SliceFrom(s, 9)
    ELSE IF StartsWith(s, Fence) THEN SliceFrom(s, 3)
    ELSE s

SanitizeClosing(s) ==
    IF EndsWith(s, Fence) THEN SliceDropLast(s, 3) ELSE s

sanitize_code(s) == Strip(SanitizeClosing(SanitizeOpening(Strip(s))))

----------------------------------------------------------------------------
(* utils.load_excel_file *)

\* A missing cell (NaN).  Any other cell is its text.
NA == << "<NA>" >>

\* The preview window: pd.read_excel(..., header=None, nrows=20)
PreviewRows == 20

Min(a, b) == IF a < b THEN a ELSE b

\* row.count(): the number of non-missing cells of a row
RowCount(row) == Cardinality({ j \in 1..Len(row) : row[j] # NA })

\* df_preview: the first PreviewRows rows, indexed 0, 1, ...
ReadPreview(grid) == SubSeq(grid, 1, Min(Len(grid), PreviewRows))

\* The loop of utils.py:18-23 from row i on: the first row with at least
\* 3 non-missing cells stops it; header_row_idx stays 0 when none does.
RECURSIVE ScanRows(_, _)
ScanRows(preview, i) ==
    IF i >= Len(preview) THEN 0
    ELSE IF RowCount(preview[i + 1]) >= 3 THEN i
    ELSE ScanRows(preview, i + 1)

\* A scan that tests "more than 3" instead of "at least 3".
FindHeaderRowStrict(grid) ==
    LET preview == ReadPreview(grid)
        Q == { i \in 0..(Len(preview) - 1) : RowCount(preview[i + 1]) > 3 }
    IN  IF Q = {} THEN 0 ELSE CHOOSE i \in Q : \A k \in Q : i <= k

FindHeaderRow(grid) == ScanRows(ReadPreview(grid), 0)

\* df.columns after pd.read_excel(..., header=h): the cells of row h, a
\* missing cell at position j being labelled "Unnamed: j".
ReadHeaderLabels(grid, h) ==
    LET row == grid[h + 1]
    IN  [ j \in 1..Len(row) |->
            IF row[j] = NA
            THEN UnnamedPrefix \o << ":", " " >> \o IntToStr(j - 1)
            ELSE row[j] ]

\* The comprehension of utils.py:29
NormalizeColumns(cols) ==
    [ j \in 1..Len(cols) |->
        IF ~StartsWith(cols[j], UnnamedPrefix) THEN Strip(cols[j])
        ELSE ColumnPrefix \o IntToStr(j - 1) ]

\* The body of the per-sheet loop, utils.py:15-31
LoadSheet(grid) ==
    LET h == FindHeaderRow(grid)
    IN  [ header |-> h,
          columns |-> NormalizeColumns(ReadHeaderLabels(grid, h)),
          data |-> SubSeq(grid, h + 2, Len(grid)) ]

\* A workbook: whether pandas can read it, and its sheets.
\* load_excel_file returns {sheet: df}, or {"error": message} on a read error.
load_excel_file(wb) ==
    IF ~wb.readable THEN [ k \in {"error"} |-> << "read error" >> ]
    ELSE [ s \in DOMAIN wb.sheets |-> LoadSheet(wb.sheets[s]) ]

----------------------------------------------------------------------------
(* Inputs of the normalizer: sheets as workbooks store them.               *)
(* pandas hands distinct labels to utils.py:29 (it renames repeated header *)
(* cells), so the rows below carry pairwise distinct texts.                *)

Txt(a) == << a >>

\* A row of width w whose first k cells are filled and the others missing
SparseRow(w, k) ==
    [ j \in 1..w |-> IF j <= k THEN << "r", Digit(j) >> ELSE NA ]

\* A row of width w with every cell filled
DenseRow(w) == [ j \in 1..w |-> << "v", Digit(j) >> ]

\* Header rows: plain labels, labels that differ only in surrounding
\* whitespace, a label spelled like a synthetic name, unnamed cells.
HeaderRows ==
    { << Txt("A"), Txt("B"), Txt("C") >>,
      << << " ", "A" >>, Txt("A"), Txt("B") >>,
      << Txt("A"), << "A", " " >>, Txt("B"), Txt("C") >>,
      << ColumnPrefix \o Txt("1"), NA, Txt("A"), Txt("B") >>,
      << Txt("A"), NA, NA, Txt("B"), Txt("C") >>,
      << Txt("A"), Txt("B"), UnnamedPrefix \o << ":", " ", "0" >> >> }

\* n rows: rows 0..p-1 sparse with k cells, row p the header row hdr, the
\* rows after it dense or sparse; p = n is a sheet with no header row.
MakeSheet(n, p, hdr, k, tail) ==
    [ i \in 1..n |->
        IF i - 1 < p THEN SparseRow(Len(hdr), k)
        ELSE IF i - 1 = p THEN hdr
        ELSE IF tail = "dense" THEN DenseRow(Len(hdr))
        ELSE SparseRow(Len(hdr), k) ]

Sheets ==
    { MakeSheet(n, p, hdr, k, tail) :
        n \in 1..MaxRows, p \in 0..MaxRows, hdr \in HeaderRows,
        k \in {0, 2}, tail \in {"dense", "sparse"} }

NoFrame == [ header |-> 0, columns |-> <<>>, data |-> <<>> ]

----------------------------------------------------------------------------
(* Inputs of sanitize_code: completion texts, by their parts *)

Bodies ==
    { << "\n", "x", "\n" >>,
      << "\n", "x", " ", "=", " ", "1" >>,
      << "\n", "x", "\n", "y", "\n" >> }

Tags ==
    { <<>>, << "p", "y", "t", "h", "o", "n" >>, << "p", "y" >>,
      << "P", "y", "t", "h", "o", "n" >> }

Completions ==
    { c \in [ lead : { <<>>, << "\n" >>, << " " >> },
              open : BOOLEAN,
              tag : Tags,
              body : Bodies,
              close : BOOLEAN,
              trail : { <<>>, << "\n" >> } ] :
        ~c.open => c.tag = <<>> }

\* The text of a completion
TextOf(c) ==
    c.lead \o (IF c.open THEN Fence \o c.tag ELSE <<>>) \o c.body
           \o (IF c.close THEN Fence ELSE <<>>) \o c.trail

NoCompletion ==
    [ lead |-> <<>>, open |-> FALSE, tag |-> <<>>, body |-> <<>>,
      close |-> FALSE, trail |-> <<>> ]

----------------------------------------------------------------------------
(* Python values and dicts *)

\* The value None.  Other values are named by their repr.
None == "None"

EmptyDict == [ k \in {} |-> k ]

\* d[k] = v
DictSet(d, k, v) ==
    [ x \in (DOMAIN d) \cup {k} |-> IF x = k THEN v ELSE d[x] ]

----------------------------------------------------------------------------
(* Workbooks and batches of files *)

LedgerSheet ==
    << SparseRow(3, 2),
       << Txt("A"), Txt("B"), Txt("C") >>,
       DenseRow(3) >>

WbPlain == [ readable |-> TRUE, sheets |-> [ s \in {"Sheet1"} |-> LedgerSheet ] ]

WbErrorSheet ==
    [ readable |-> TRUE,
      sheets |-> [ s \in {"Summary", "error"} |-> LedgerSheet ] ]

WbCorrupt == [ readable |-> FALSE, sheets |-> EmptyDict ]

File(n, w) == [ name |-> n, wb |-> w ]

\* What st.file_uploader can hold when the button is pressed
Batches ==
    { << File("pl.xlsx", WbPlain) >>,
      << File("pl.xlsx", WbPlain), File("bs.xlsx", WbCorrupt),
         File("q3.xlsx", WbPlain) >>,
      << File("bs.xlsx", WbPlain), File("q3.xlsx", WbErrorSheet) >> }

\* What the Data folder can hold
DataDirs ==
    { <<>>,
      << File("d1.xlsx", WbCorrupt), File("d2.xlsx", WbPlain),
         File("d3.xlsx", WbPlain) >> }

\* The two loading loops (app.py:61-66 and app.py:72-77): each file is
\* loaded; "error" in dfs decides between st.error and the assignment.
RECURSIVE LoadFiles(_, _, _)
LoadFiles(dfs, errs, files) ==
    IF files = <<>> THEN [ dfs |-> dfs, errors |-> errs ]
    ELSE LET f == Head(files)
             loaded == load_excel_file(f.wb)
         IN  IF "error" \in DOMAIN loaded
             THEN LoadFiles(dfs, errs \cup {f.name}, Tail(files))
             ELSE LoadFiles(DictSet(dfs, f.name, loaded), errs, Tail(files))

\* "Process Uploaded Files"
UploadLoop(dfs, files) == LoadFiles(dfs, {}, files)

\* Auto-load: runs when the collection is empty and the folder is not
AutoLoad(dfs, files) ==
    IF DOMAIN dfs = {} /\ files # <<>> THEN LoadFiles(dfs, {}, files)
    ELSE [ dfs |-> dfs, errors |-> {} ]

----------------------------------------------------------------------------
(* Synthesized programs, by what running them does *)

\* fault: what exec raises ("none": the program runs to its end)
\* binds, value: whether the program binds `result`, and to what
\* prints: what it writes to sys.stdout
\* effect: what it does with the `dataframes` it is given
\*   "rebind": dataframes = {}     "clear": dataframes.clear()
\*   "pop": dataframes.pop(k) for one key k
Prog(f, m, b, v, p, e) ==
    [ fault |-> f, msg |-> m, binds |-> b, value |-> v, prints |-> p,
      effect |-> e ]

Programs ==
    { Prog("none", "", TRUE, "42", "", "none"),
      Prog("none", "", TRUE, "42", "debug", "none"),
      Prog("none", "", TRUE, "''", "", "none"),
      Prog("none", "", TRUE, None, "debug", "none"),
      Prog("none", "", FALSE, None, "42", "none"),
      Prog("ValueError", "bad", FALSE, None, "", "none"),
      Prog("SystemExit", "1", FALSE, None, "", "none"),
      Prog("none", "", TRUE, "42", "", "rebind"),
      Prog("none", "", TRUE, "42", "", "clear"),
      Prog("KeyError", "k", FALSE, None, "", "pop") }

NoProgram == Prog("none", "", FALSE, None, "", "none")

\* The classes `except Exception` catches; SystemExit, KeyboardInterrupt
\* and GeneratorExit derive from BaseException only.
IsException(f) == f \notin {"SystemExit", "KeyboardInterrupt", "GeneratorExit"}

\* The program acts on the object bound to `dataframes` in its globals,
\* which is the session's dict itself (backend.py:125).
ApplyEffect(e, dfs) ==
    IF e = "clear" THEN EmptyDict
    ELSE IF e = "pop" /\ DOMAIN dfs # {}
    THEN LET k == CHOOSE x \in DOMAIN dfs : TRUE
         IN  [ x \in (DOMAIN dfs) \ {k} |-> dfs[x] ]
    ELSE dfs

NotDefinedMsg == << "Error: The code did not define a 'result' variable." >>

\* FinancialAnalyst.execute_code(code, dataframes), entered with sys.stdout
\* bound to `old` and making the StringIO `redirected`.
\* raised = "none": it returns (result, output); otherwise the fault leaves it.
execute_code(prog, dfs, old, redirected) ==
    LET after == ApplyEffect(prog.effect, dfs)
    IN  IF prog.fault = "none"
        THEN IF prog.binds
             THEN [ raised |-> "none", result |-> prog.value,
                    output |-> << prog.prints >>,
                    stdout |-> old, dataframes |-> after ]
             ELSE [ raised |-> "none", result |-> None,
                    output |-> NotDefinedMsg,
                    stdout |-> old, dataframes |-> after ]
        ELSE IF IsException(prog.fault)
        THEN [ raised |-> "none", result |-> None,
               output |-> << "Execution Error", prog.fault, prog.msg >>,
               stdout |-> old, dataframes |-> after ]
        ELSE [ raised |-> prog.fault, result |-> None, output |-> <<>>,
               stdout |-> redirected, dataframes |-> after ]

----------------------------------------------------------------------------
(* The script of app.py *)

Questions == { "total income?" }

Msg(r, c) == [ role |-> r, content |-> c ]

UploadFirstMsg ==
    << "Please upload some financial data first so I can answer your question." >>

ErrorResponse(out) ==
    << "I encountered an error while calculating the answer:" >> \o out

\* The text explain_result returns for a result
Explanation(res) == << "explanation of", res >>

\* What analyze_query can return: the proceed signal or a question
Analyses == { "PROCEED", "Which file do you mean?" }

\* A turn-handler that explains whatever execute_code returned.
AlwaysExplain(res) == "explain"

\* app.py:133: `if result is None` ends the turn with the error response,
\* anything else goes on to explain_result.
NextAfterExecute(res) == IF res = None THEN "idle" ELSE "explain"

\* The locals of a script run, as a new run finds them
ResetRun ==
    /\ prompt' = ""
    /\ analysis' = "none"
    /\ code' = NoProgram
    /\ result' = None
    /\ output' = <<>>
    /\ calls' = <<>>
    /\ executed' = FALSE
    /\ exec_fault' = "none"
    /\ escaped' = FALSE
    /\ explained' = "nothing"
    /\ stdout_before' = sys_stdout

AppInit ==
    /\ messages = <<>>
    /\ dataframes = EmptyDict
    /\ sys_stdout = 0
    /\ pc = "idle"
    /\ prompt = ""
    /\ analysis = "none"
    /\ code = NoProgram
    /\ result = None
    /\ output = <<>>
    /\ upload_errors = {}
    /\ auto_errors = {}
    /\ last_batch = <<>>
    /\ last_op = "init"
    /\ calls = <<>>
    /\ executed = FALSE
    /\ execs = 0
    /\ turns = 0
    /\ stdout_before = 0
    /\ dataframes_before = EmptyDict
    /\ exec_fault = "none"
    /\ escaped = FALSE
    /\ explained = "nothing"

NormIdle == sheet_in = <<>> /\ df = NoFrame /\ npc = "off"

SanIdle == raw = NoCompletion /\ code_str = <<>> /\ spc = "off"

\* A script run with no interaction: only the auto-load can act.
PageLoad ==
    /\ pc = "idle"
    /\ LET a == AutoLoad(dataframes, data_dir)
       IN  /\ dataframes' = a.dfs
           /\ auto_errors' = a.errors
    /\ dataframes_before' = dataframes
    /\ upload_errors' = {}
    /\ last_batch' = <<>>
    /\ last_op' = "page_load"
    /\ ResetRun
    /\ UNCHANGED << messages, sys_stdout, data_dir, pc, execs, turns >>
    /\ UNCHANGED << normVars, sanVars >>

\* The run started by "Process Uploaded Files": the upload loop, then the
\* auto-load.
ProcessUploadedFiles ==
    /\ pc = "idle"
    /\ \E batch \in Batches :
         LET u == UploadLoop(dataframes, batch)
             a == AutoLoad(u.dfs, data_dir)
         IN  /\ dataframes' = a.dfs
             /\ upload_errors' = u.errors
             /\ auto_errors' = a.errors
             /\ last_batch' = batch
    /\ dataframes_before' = dataframes
    /\ last_op' = "upload"
    /\ ResetRun
    /\ UNCHANGED << messages, sys_stdout, data_dir, pc, execs, turns >>
    /\ UNCHANGED << normVars, sanVars >>

\* The run started by a question, up to the first completion call
\* (app.py:70-78, 95-112).
Submit ==
    /\ pc = "idle"
    /\ turns < MaxTurns
    /\ \E q \in Questions :
         LET a == AutoLoad(dataframes, data_dir)
             asked == Append(messages, Msg("user", << q >>))
         IN  /\ dataframes' = a.dfs
             /\ auto_errors' = a.errors
             /\ prompt' = q
             /\ IF DOMAIN a.dfs = {}
                THEN /\ messages' = Append(asked, Msg("assistant", UploadFirstMsg))
                     /\ pc' = "idle"
                ELSE /\ messages' = asked
                     /\ pc' = "analyze"
    /\ turns' = turns + 1
    /\ dataframes_before' = dataframes
    /\ upload_errors' = {}
    /\ last_batch' = <<>>
    /\ last_op' = "submit"
    /\ analysis' = "none"
    /\ code' = NoProgram
    /\ result' = None
    /\ output' = <<>>
    /\ calls' = <<>>
    /\ executed' = FALSE
    /\ exec_fault' = "none"
    /\ escaped' = FALSE
    /\ explained' = "nothing"
    /\ stdout_before' = sys_stdout
    /\ UNCHANGED << sys_stdout, data_dir, execs >>
    /\ UNCHANGED << normVars, sanVars >>

\* analyze_query returns (app.py:115-124)
AnalyzeQuery ==
    /\ pc = "analyze"
    /\ calls' = Append(calls, "analyze_query")
    /\ \E a \in Analyses :
         /\ analysis' = a
         /\ IF a # "PROCEED"
            THEN /\ messages' = Append(messages, Msg("assistant", << a >>))
                 /\ pc' = "idle"
            ELSE /\ messages' = messages
                 /\ pc' = "generate"
    /\ last_op' = "analyze_query"
    /\ UNCHANGED << dataframes, sys_stdout, data_dir, prompt, code, result,
                    output, upload_errors, auto_errors, last_batch, executed,
                    execs, turns, stdout_before, dataframes_before,
                    exec_fault, escaped, explained >>
    /\ UNCHANGED << normVars, sanVars >>

\* generate_code returns a program (app.py:124-128): the sanitized
\* completion text, taken by what running it does.
GenerateCode ==
    /\ pc = "generate"
    /\ calls' = Append(calls, "generate_code")
    /\ \E p \in Programs : code' = p
    /\ pc' = "execute"
    /\ last_op' = "generate_code"
    /\ UNCHANGED << messages, dataframes, sys_stdout, data_dir, prompt,
                    analysis, result, output, upload_errors, auto_errors,
                    last_batch, executed, execs, turns, stdout_before,
                    dataframes_before, exec_fault, escaped, explained >>
    /\ UNCHANGED << normVars, sanVars >>

\* A completion call raises (app.py:143-144): st.error, and the run ends.
CompletionFault ==
    /\ pc \in {"analyze", "generate", "explain"}
    /\ calls' = Append(calls,
                   CASE pc = "analyze" -> "analyze_query"
                     [] pc = "generate" -> "generate_code"
                     [] pc = "explain" -> "explain_result")
    /\ explained' = IF pc = "explain" THEN result ELSE explained
    /\ pc' = "idle"
    /\ last_op' = "completion_fault"
    /\ UNCHANGED << messages, dataframes, sys_stdout, data_dir, prompt,
                    analysis, code, result, output, upload_errors,
                    auto_errors, last_batch, executed, execs, turns,
                    stdout_before, dataframes_before, exec_fault, escaped >>
    /\ UNCHANGED << normVars, sanVars >>

\* execute_code, and the branch on its result (app.py:131-136)
ExecuteCode ==
    /\ pc = "execute"
    /\ LET r == execute_code(code, dataframes, sys_stdout, execs + 1)
       IN  /\ sys_stdout' = r.stdout
           /\ dataframes' = r.dataframes
           /\ IF r.raised # "none"
              THEN \* neither except clause catches it: the run ends
                   /\ escaped' = TRUE
                   /\ executed' = FALSE
                   /\ pc' = "idle"
                   /\ UNCHANGED << messages, result, output >>
              ELSE /\ escaped' = FALSE
                   /\ executed' = TRUE
                   /\ result' = r.result
                   /\ output' = r.output
                   /\ pc' = NextAfterExecute(r.result)
                   /\ IF NextAfterExecute(r.result) = "idle"
                      THEN messages' =
                             Append(messages,
                                    Msg("assistant", ErrorResponse(r.output)))
                      ELSE messages' = messages
    /\ execs' = execs + 1
    /\ stdout_before' = sys_stdout
    /\ dataframes_before' = dataframes
    /\ exec_fault' = code.fault
    /\ last_op' = "execute_code"
    /\ UNCHANGED << data_dir, prompt, analysis, code, upload_errors,
                    auto_errors, last_batch, calls, turns, explained >>
    /\ UNCHANGED << normVars, sanVars >>

\* explain_result returns (app.py:139-141)
ExplainResult ==
    /\ pc = "explain"
    /\ calls' = Append(calls, "explain_result")
    /\ explained' = result
    /\ messages' = Append(messages, Msg("assistant", Explanation(result)))
    /\ pc' = "idle"
    /\ last_op' = "explain_result"
    /\ UNCHANGED << dataframes, sys_stdout, data_dir, prompt, analysis, code,
                    result, output, upload_errors, auto_errors, last_batch,
                    executed, execs, turns, stdout_before, dataframes_before,
                    exec_fault, escaped >>
    /\ UNCHANGED << normVars, sanVars >>

Init == AppInit /\ data_dir \in DataDirs /\ NormIdle /\ SanIdle

Next ==
    \/ PageLoad
    \/ ProcessUploadedFiles
    \/ Submit
    \/ AnalyzeQuery
    \/ GenerateCode
    \/ CompletionFault
    \/ ExecuteCode
    \/ ExplainResult

Spec == Init /\ [][Next]_vars

----------------------------------------------------------------------------
(* load_excel_file applied to one sheet *)

InitNormalize ==
    /\ AppInit /\ data_dir = <<>> /\ SanIdle
    /\ sheet_in \in Sheets
    /\ df = NoFrame
    /\ npc = "start"

NormalizeSheet ==
    /\ npc = "start"
    /\ df' = load_excel_file(
               [ readable |-> TRUE,
                 sheets |-> [ s \in {"Sheet1"} |-> sheet_in ] ])["Sheet1"]
    /\ npc' = "done"
    /\ UNCHANGED << sheet_in, appVars, sanVars >>

NextNormalize == NormalizeSheet

SpecNormalize == InitNormalize /\ [][NextNormalize]_vars

----------------------------------------------------------------------------
(* sanitize_code applied to one completion *)

InitSanitize ==
    /\ AppInit /\ data_dir = <<>> /\ NormIdle
    /\ raw \in Completions
    /\ code_str = <<>>
    /\ spc = "start"

SanitizeCompletion ==
    /\ spc = "start"
    /\ code_str' = sanitize_code(TextOf(raw))
    /\ spc' = "done"
    /\ UNCHANGED << raw, appVars, normVars >>

NextSanitize == SanitizeCompletion

SpecSanitize == InitSanitize /\ [][NextSanitize]_vars

----------------------------------------------------------------------------
(* Properties *)

LastMessage == messages[Len(messages)]

AllCalls == << "analyze_query", "generate_code", "explain_result" >>

IsPrefix(s, t) == Len(s) <= Len(t) /\ SubSeq(t, 1, Len(s)) = s

\* C1: whatever way the executed program ends, sys.stdout after
\* execute_code is left is the object it was when execute_code was entered,
\* and the redirection made by the call is no longer in place.
C1_StdoutRestored ==
    last_op = "execute_code" =>
        /\ sys_stdout = stdout_before
        /\ sys_stdout # execs

\* C2: when the executed program raises a fault of any kind, execute_code
\* returns a Failure (result None) carrying the fault's category name and
\* message, and no raw fault leaves the script run of the turn.
C2_FaultBecomesFailure ==
    (last_op = "execute_code" /\ exec_fault # "none") =>
        /\ ~escaped
        /\ executed
        /\ result = None
        /\ output = << "Execution Error", exec_fault, code.msg >>

\* C3: a program that ends without fault and binds `result` (to any value)
\* is treated as a Result and its value goes unchanged to the explainer; a
\* program that ends without binding `result` yields the fixed
\* contract-not-honored Failure; the printed output is never the answer
\* nor the failure cause.
C3_OutcomeDecidedByScope ==
    /\ (last_op = "execute_code" /\ code.fault = "none" /\ code.binds) =>
          /\ pc = "explain"
          /\ result = code.value
    /\ (last_op = "explain_result" /\ code.fault = "none" /\ code.binds) =>
          /\ explained = code.value
          /\ LastMessage = Msg("assistant", Explanation(code.value))
    /\ (last_op = "execute_code" /\ code.fault = "none" /\ ~code.binds) =>
          /\ pc = "idle"
          /\ result = None
          /\ output = NotDefinedMsg
          /\ LastMessage = Msg("assistant", ErrorResponse(NotDefinedMsg))
    /\ (last_op = "execute_code" /\ pc = "idle" /\ ~escaped) =>
          LastMessage.content # ErrorResponse(<< code.prints >>)

\* C4: executing a synthesized program never changes the session's
\* Dataset Collection: after execute_code it equals what it was before.
C4_CollectionUnchanged ==
    last_op = "execute_code" => dataframes = dataframes_before

\* C5: every submitted question, whatever the turn's outcome, adds exactly
\* one user message followed by exactly one assistant message to the
\* history: once the run of a turn is over, the history holds two messages
\* per question asked, user and assistant alternating.
C5_TurnRecorded ==
    pc = "idle" =>
        /\ Len(messages) = 2 * turns
        /\ \A i \in 1..Len(messages) :
             messages[i].role = IF i % 2 = 1 THEN "user" ELSE "assistant"

\* C6: in an upload pass each file is handled on its own: a file whose
\* workbook is read without error is in the collection under its name,
\* whatever its sheets are called, and is not reported; a file whose read
\* fails is reported and is not added; so exactly the unreadable files are
\* reported.
C6_FilesIndependent ==
    last_op = "upload" =>
        /\ \A i \in 1..Len(last_batch) :
             LET f == last_batch[i]
             IN  IF f.wb.readable
                 THEN /\ f.name \in DOMAIN dataframes
                      /\ dataframes[f.name] = load_excel_file(f.wb)
                      /\ f.name \notin upload_errors
                 ELSE /\ f.name \in upload_errors
                      /\ (f.name \in DOMAIN dataframes
                            <=> f.name \in DOMAIN dataframes_before)
        /\ upload_errors =
             { last_batch[i].name : i \in
                 { j \in 1..Len(last_batch) : ~last_batch[j].wb.readable } }

\* C7 (as stated): a turn in which the disambiguator returns the proceed
\* signal calls the completion service exactly three times, in the order
\* disambiguation, synthesis, explanation, and a turn in which it returns a
\* clarifying question calls it exactly once.  Read for the turns in which
\* no call faults and no fault leaves the run.
C7_ThreeCallsWhenProceed ==
    (pc = "idle" /\ last_op # "completion_fault" /\ ~escaped) =>
        /\ analysis = "PROCEED" => calls = AllCalls
        /\ analysis \notin {"PROCEED", "none"} => calls = << "analyze_query" >>

\* C7 (amended): the calls of a turn are made in the order disambiguation,
\* synthesis, explanation, each at most once; synthesis only after the
\* disambiguator returned proceed; explanation only after execute_code
\* returned a result other than None.  A finished turn made exactly three
\* calls when the disambiguator returned proceed and execute_code returned
\* a result other than None, exactly two (no explanation) when it returned
\* proceed and execute_code returned None or was left by a fault, and
\* exactly one when the disambiguator returned a clarifying question.
C7_CallsFollowOutcome ==
    /\ IsPrefix(calls, AllCalls)
    /\ Len(calls) >= 2 => analysis = "PROCEED"
    /\ Len(calls) = 3 => (executed /\ result # None)
    /\ escaped => calls = << "analyze_query", "generate_code" >>
    /\ (pc = "idle" /\ last_op # "completion_fault" /\ ~escaped) =>
          /\ (analysis = "PROCEED" /\ result # None) => calls = AllCalls
          /\ (analysis = "PROCEED" /\ result = None) =>
                (executed /\ calls = << "analyze_query", "generate_code" >>)
          /\ analysis \notin {"PROCEED", "none"} =>
                calls = << "analyze_query" >>

\* A finished turn in which the disambiguator returned proceed, execute_code
\* returned None and only two calls were made.
C7_Witness ==
    /\ pc = "idle"
    /\ analysis = "PROCEED"
    /\ executed
    /\ result = None
    /\ calls = << "analyze_query", "generate_code" >>
    /\ LastMessage.role = "assistant"

\* C8: after load_excel_file normalizes a sheet, its column names are
\* pairwise distinct.
C8_ColumnsDistinct ==
    npc = "done" =>
        \A i, j \in 1..Len(df.columns) :
            i # j => df.columns[i] # df.columns[j]

\* The rows of the preview window that qualify as header, by index
Qualifying(grid) ==
    { i \in 0..(Min(Len(grid), PreviewRows) - 1) :
        Cardinality({ j \in 1..Len(grid[i + 1]) : grid[i + 1][j] # NA }) >= 3 }

\* C9: the header row index chosen is the smallest index within the 20-row
\* preview window of a row with at least 3 non-missing cells, and 0 when
\* the window has none; a sheet whose first two rows have fewer than 3
\* and whose third row has at least 3 gets index 2; the sheet is re-read
\* with that row as its header.
C9_HeaderRow ==
    npc = "done" =>
        LET Q == Qualifying(sheet_in)
            h == IF Q = {} THEN 0 ELSE CHOOSE i \in Q : \A k \in Q : i <= k
        IN  /\ df.header = h
            /\ (Q # {} /\ 0 \notin Q /\ 1 \notin Q /\ 2 \in Q) => df.header = 2
            /\ Len(df.columns) = Len(sheet_in[h + 1])
            /\ df.data = SubSeq(sheet_in, h + 2, Len(sheet_in))

\* A sheet whose first two rows are sparse and whose third row qualifies,
\* with a later row qualifying too, normalized with header row 2.
C9_Witness ==
    /\ npc = "done"
    /\ Len(sheet_in) > 3
    /\ { 2, 3 } \subseteq Qualifying(sheet_in)
    /\ 0 \notin Qualifying(sheet_in)
    /\ 1 \notin Qualifying(sheet_in)
    /\ df.header = 2

\* C10: for a completion that is a program wrapped in fences (an opening
\* fence with or without a language tag, a closing fence, whitespace
\* around), sanitize_code returns the enclosed program: no fence at either
\* end, no leftover language tag, and sanitizing again changes nothing.
C10_FencesStripped ==
    (spc = "done" /\ raw.open /\ raw.close) =>
        /\ code_str = Strip(raw.body)
        /\ ~StartsWith(code_str, Fence)
        /\ ~EndsWith(code_str, Fence)
        /\ sanitize_code(code_str) = code_str

====
